---- MODULE Spec2Model ----
(***************************************************************************)
(* Model of plugins/snake.py: the Snake entity (update, bite) and the      *)
(* SnakePlugin population manager (update, check_snake_collisions,         *)
(* try_spawn_snake).                                                       *)
(*                                                                         *)
(* Time is counted in tenths of a second (move_interval 0.5 s = 5,         *)
(* spawn_interval 10 s = 100).  The world origin game.world_x/world_y may  *)
(* be a float in the program; it is counted in halves (world_x = 127 is    *)
(* 63.5), which is enough to make int(round(.)) a real conversion.         *)
(***************************************************************************)
EXTENDS Integers, Sequences, FiniteSets, TLC

VARIABLES
    snakes,          \* SnakePlugin.snakes: sequence of snake records
    spawn_timer,     \* SnakePlugin.spawn_timer (tenths of a second)
    active,          \* Plugin.active
    spaces,          \* game.spaces: set of <<key, value>> pairs, one per key
    message,         \* game.message
    message_timeout, \* game.message_timeout (tenths of a second)
    world_x,         \* game.world_x (halves)
    world_y,         \* game.world_y (halves)
    error,           \* TRUE once an operation has raised an exception
    updates,         \* Snake.update calls made so far (bounds the exploration)
    since_spawn,     \* <<dt accumulated by active updates since the last spawn
                     \* attempt of update>>, <<>> before the first (history)
    last             \* what the last operation did (observation only)

vars == <<snakes, spawn_timer, active, spaces, message, message_timeout,
          world_x, world_y, error, updates, since_spawn, last>>

----------------------------------------------------------------------------
\* Bounds of the model.

\* Snake.update calls explored in one behaviour (an update of an empty
\* population counts as one).
MaxSnakeUpdates == 5

\* Local coordinates explored: x = 0, y in -BoxH..BoxH.
BoxH == 1

----------------------------------------------------------------------------
\* Program constants.

max_length == 15
move_interval == 5
spawn_interval == 100
max_snakes == 5
init_length == 3
spawn_trials == 10
bite_rattles == 2
bite_min_body == 3
egg_code == 48
plant_code == 64
id_modulus == 127
row_stride == 1000
message_seconds == 20
spawn_range == 10

Directions == {<<0, -1>>, <<1, 0>>, <<0, 1>>, <<-1, 0>>}

BiteMessage == "Snake bite! One snake lost a segment, another gained rattles."

\* dt values handed to update (tenths of a second): a clock stepping back,
\* no time, less than move_interval, and spawn_interval.
DtSet == {-3, 0, 3, 100}

\* Local cells the heads may visit and spawn offsets may name.
Cells == {<<0, y>> : y \in -BoxH..BoxH}

\* World origins (halves): (63.5, 0).  Local (0, 0) is then the plant at
\* absolute (64, 0), local (0, 1) the egg at (64, 1), local (0, -1) empty.
WorldOrigins == {<<127, 0>>}

\* Directions Snake.__init__ draws for a new snake.
SpawnDirections == {<<0, 1>>}

----------------------------------------------------------------------------
\* Pure helpers.

\* int(round(v)) for v = h/2: Python rounds halves to the even neighbour.
PyRound(h) ==
    LET q == h \div 2
    IN  IF h % 2 = 0 THEN q
        ELSE IF q % 2 = 0 THEN q ELSE q + 1

\* Absolute integer coordinate of a local position: int(round(p + world)).
WorldCoord(p, wx, wy) == <<PyRound(2 * p[1] + wx), PyRound(2 * p[2] + wy)>>

location_id(c) == (c[1] + c[2] * row_stride) % id_modulus

IsEgg(c) == location_id(c) = egg_code

\* Variant of IsPlant that takes the egg character for the plant character.
IsPlant_egg(c) == location_id(c) = egg_code

IsPlant(c) == location_id(c) = plant_code

\* hashlib.md5(f"{x},{y}").hexdigest(): a key determined by the formatted pair.
SpaceKey(c) == <<"md5", c[1], c[2]>>

\* game.spaces[key] = value
StorePut(sp, key, value) == {p \in sp : p[1] # key} \cup {<<key, value>>}

RemoveAt(s, i) == SubSeq(s, 1, i - 1) \o SubSeq(s, i + 1, Len(s))

\* A history of accumulated dt (<<>> before the first event) after one more
\* update of dt.
Accumulate(since, dt) == IF since = <<>> THEN <<>> ELSE <<since[1] + dt>>

\* Variant of NewSnake whose target length starts at 0 ("self.length = 0").
NewSnake_lengthless(x, y, d) ==
    [body |-> << <<x, y>> >>, length |-> 0, rattles |-> 0,
     direction |-> d, time_to_move |-> 0, since_move |-> <<>>, born |-> 0]

\* Snake.__init__; since_move and born are history: <<dt accumulated since
\* the snake's last move>>, <<>> before its first, and the snake's rank in
\* the order of creation, which the spawn sets.
NewSnake(x, y, d) ==
    [body |-> << <<x, y>> >>, length |-> init_length, rattles |-> 0,
     direction |-> d, time_to_move |-> 0, since_move |-> <<>>, born |-> 0]

----------------------------------------------------------------------------
\* Snake.update

\* Variant of Grow whose comparison is <= : it grows once past max_length.
Grow_through(length) == IF length <= max_length THEN length + 1 ELSE length

\* "if self.length < self.max_length: self.length += 1"
Grow(length) == IF length < max_length THEN length + 1 ELSE length

\* Variant of TrimTail that pops while len(body) >= limit instead of > limit.
TrimTail_early(body, limit) ==
    IF Len(body) < limit THEN [body |-> body, err |-> FALSE]
    ELSE IF limit >= 1 THEN [body |-> SubSeq(body, 1, limit - 1), err |-> FALSE]
    ELSE [body |-> <<>>, err |-> TRUE]

\* Variant of TrimTail that pops at the head end (body.pop(0)).
TrimTail_front(body, limit) ==
    IF Len(body) <= limit THEN [body |-> body, err |-> FALSE]
    ELSE IF limit >= 0
    THEN [body |-> SubSeq(body, Len(body) - limit + 1, Len(body)), err |-> FALSE]
    ELSE [body |-> <<>>, err |-> TRUE]

\* "while len(self.body) > self.length + self.rattles: self.body.pop()".
\* With a negative limit the loop pops an empty list, which raises.
TrimTail(body, limit) ==
    IF Len(body) <= limit THEN [body |-> body, err |-> FALSE]
    ELSE IF limit >= 0 THEN [body |-> SubSeq(body, 1, limit), err |-> FALSE]
    ELSE [body |-> <<>>, err |-> TRUE]

\* Variant of MoveSnake in which the store is written and saved only when
\* the snake grows (lines 50-52 one indentation level deeper).
MoveSnake_grown_only(s, d, wx, wy) ==
    IF s.body = <<>>
    THEN [snake |-> [s EXCEPT !.direction = d], moved |-> FALSE, egg |-> FALSE,
          coord |-> <<0, 0>>, err |-> TRUE]
    ELSE
    LET head     == s.body[1]
        new_head == <<head[1] + d[1], head[2] + d[2]>>
        coord    == WorldCoord(new_head, wx, wy)
        egg      == IsEgg(coord)
        length1  == IF egg THEN Grow(s.length) ELSE s.length
        trimmed  == TrimTail(<<new_head>> \o s.body, length1 + s.rattles)
    IN  [snake |-> [s EXCEPT !.direction = d, !.length = length1,
                             !.body = trimmed.body],
         moved |-> TRUE, egg |-> egg /\ s.length < max_length,
         coord |-> coord, err |-> trimmed.err]

\* The body of "if self.time_to_move <= 0", with the direction d in force
\* after the optional resample.  Reading body[0] of an empty body raises.
MoveSnake(s, d, wx, wy) ==
    IF s.body = <<>>
    THEN [snake |-> [s EXCEPT !.direction = d], moved |-> FALSE, egg |-> FALSE,
          coord |-> <<0, 0>>, err |-> TRUE]
    ELSE
    LET head     == s.body[1]
        new_head == <<head[1] + d[1], head[2] + d[2]>>
        coord    == WorldCoord(new_head, wx, wy)
        egg      == IsEgg(coord)
        length1  == IF egg THEN Grow(s.length) ELSE s.length
        trimmed  == TrimTail(<<new_head>> \o s.body, length1 + s.rattles)
    IN  [snake |-> [s EXCEPT !.direction = d, !.length = length1,
                             !.body = trimmed.body],
         moved |-> TRUE, egg |-> egg, coord |-> coord, err |-> trimmed.err]

\* Variant of SnakeUpdate that carries the overshoot into the next interval
\* ("self.time_to_move += self.move_interval").
SnakeUpdate_carry(s, dt, resample, choice, wx, wy) ==
    LET t == s.time_to_move - dt
    IN  IF t <= 0
        THEN MoveSnake([s EXCEPT !.time_to_move = t + move_interval,
                                 !.since_move = <<0>>],
                       IF resample THEN choice ELSE s.direction, wx, wy)
        ELSE [snake |-> [s EXCEPT !.time_to_move = t,
                                  !.since_move = Accumulate(@, dt)],
              moved |-> FALSE, egg |-> FALSE, coord |-> <<0, 0>>, err |-> FALSE]

\* Snake.update(dt); resample is "random.random() < 0.3", choice the
\* direction random.choice would return.
SnakeUpdate(s, dt, resample, choice, wx, wy) ==
    LET t == s.time_to_move - dt
    IN  IF t <= 0
        THEN MoveSnake([s EXCEPT !.time_to_move = move_interval,
                                 !.since_move = <<0>>],
                       IF resample THEN choice ELSE s.direction, wx, wy)
        ELSE [snake |-> [s EXCEPT !.time_to_move = t,
                                  !.since_move = Accumulate(@, dt)],
              moved |-> FALSE, egg |-> FALSE, coord |-> <<0, 0>>, err |-> FALSE]

\* The outcomes of one Snake.update over the random draws, the head kept
\* inside cells.
SnakeOutcomes(s, dt, wx, wy, cells) ==
    {o \in {SnakeUpdate(s, dt, r, c, wx, wy) : r \in BOOLEAN, c \in Directions} :
        o.snake.body = <<>> \/ o.snake.body[1] \in cells}

\* "for snake in self.snakes: snake.update(dt)": acc collects the snakes
\* already updated, the store, the save requests and what each update did.
\* An exception ends the loop where it is raised.
MoveStep(acc, o) ==
    [snakes |-> Append(acc.snakes, o.snake),
     spaces |-> IF o.egg THEN StorePut(acc.spaces, SpaceKey(o.coord), o.coord)
                ELSE acc.spaces,
     saves  |-> IF o.egg THEN acc.saves + 1 ELSE acc.saves,
     moved  |-> Append(acc.moved, o.moved),
     eggs   |-> Append(acc.eggs, o.egg),
     err    |-> o.err]

RECURSIVE MoveAll(_, _, _, _, _, _)
MoveAll(acc, rest, dt, wx, wy, cells) ==
    IF rest = <<>> THEN {acc}
    ELSE IF acc.err THEN {[acc EXCEPT !.snakes = acc.snakes \o rest]}
    ELSE UNION {MoveAll(MoveStep(acc, o), Tail(rest), dt, wx, wy, cells) :
                    o \in SnakeOutcomes(Head(rest), dt, wx, wy, cells)}

----------------------------------------------------------------------------
\* Snake.bite and SnakePlugin.check_snake_collisions

\* Variant of MiddleIndex that rounds the middle of an even body down.
MiddleIndex_low(body) == (Len(body) - 1) \div 2

\* "middle_index = len(other_snake.body) // 2" (0-based)
MiddleIndex(body) == Len(body) \div 2

\* Variant of CanLoseSegment whose comparison is >= : a body of 3 loses one.
CanLoseSegment_three(body) == Len(body) >= bite_min_body

\* "if len(other_snake.body) > 3"
CanLoseSegment(body) == Len(body) > bite_min_body

\* sn[i].bite(sn[j]) on the state st of the collision pass.
Bite(st, i, j) ==
    LET other  == st.snakes[j]
        hit    == CanLoseSegment(other.body)
        biter  == [st.snakes[i] EXCEPT !.rattles = @ + bite_rattles]
        bitten == IF hit
                  THEN [other EXCEPT
                          !.body = RemoveAt(other.body, MiddleIndex(other.body) + 1),
                          !.length = @ - 1]
                  ELSE other
    IN  [snakes |-> [[st.snakes EXCEPT ![i] = biter] EXCEPT ![j] = bitten],
         message |-> IF hit THEN BiteMessage ELSE st.message,
         message_timeout |-> IF hit THEN message_seconds ELSE st.message_timeout,
         bites |-> Append(st.bites,
                          [biter |-> i, target |-> j, ret |-> hit,
                           before |-> [snakes |-> st.snakes,
                                       message |-> st.message,
                                       message_timeout |-> st.message_timeout]])]

\* "for k, segment in enumerate(snake2.body[1:], 1): if head1 == segment"
HeadOnBody(head1, body) == \E k \in 2..Len(body) : body[k] = head1

\* Variant of SkipPair without the "i == j" test.
SkipPair_self(sn, i, j) == Len(sn[j].body) < 2

\* Variant of SkipPair that visits each unordered pair once (i < j only).
SkipPair_once(sn, i, j) == i >= j \/ Len(sn[j].body) < 2

\* "if i == j or len(snake2.body) < 2: continue"
SkipPair(sn, i, j) == i = j \/ Len(sn[j].body) < 2

\* The nested loops of check_snake_collisions from the pair (i, j) on.
RECURSIVE ScanPairs(_, _, _)
ScanPairs(st, i, j) ==
    IF i > Len(st.snakes) THEN st
    ELSE IF st.snakes[i].body = <<>> \/ j > Len(st.snakes)
         THEN ScanPairs(st, i + 1, 1)
    ELSE IF SkipPair(st.snakes, i, j) THEN ScanPairs(st, i, j + 1)
    ELSE IF HeadOnBody(st.snakes[i].body[1], st.snakes[j].body)
         THEN ScanPairs(Bite(st, i, j), i, j + 1)
    ELSE ScanPairs(st, i, j + 1)

check_snake_collisions(sn, msg, timeout) ==
    ScanPairs([snakes |-> sn, message |-> msg, message_timeout |-> timeout,
               bites |-> <<>>], 1, 1)

----------------------------------------------------------------------------
\* SnakePlugin.try_spawn_snake

\* Variant of AtCap whose comparison is > : the cap lets one more snake in.
AtCap_above(n) == n > max_snakes

\* "if len(self.snakes) >= self.max_snakes: return False"
AtCap(n) == n >= max_snakes

\* Offsets the trials draw: a subset of what random.randint(-10, 10) returns.
Offsets ==
    {c \in {<<0, 0>>, <<0, 1>>} : /\ c[1] \in -spawn_range..spawn_range
                                  /\ c[2] \in -spawn_range..spawn_range}

\* Offset sequences of the trial loop: a for the trials before the k-th,
\* b from the k-th on.
TrialSeqs ==
    {[t \in 1..spawn_trials |-> IF t < k THEN a ELSE b] :
        a \in Offsets, b \in Offsets, k \in {1, spawn_trials}}

\* Variant of SpawnLoop that makes one trial fewer (range(9)).
RECURSIVE SpawnLoop_short(_, _, _, _, _)
SpawnLoop_short(sn, offs, k, wx, wy) ==
    IF k >= spawn_trials
    THEN {[snakes |-> sn, ret |-> FALSE, trials |-> spawn_trials - 1]}
    ELSE IF IsPlant(WorldCoord(offs[k], wx, wy))
    THEN {[snakes |-> Append(sn, [NewSnake(offs[k][1], offs[k][2], d)
                                     EXCEPT !.born = Len(sn) + 1]),
           ret |-> TRUE, trials |-> k] : d \in SpawnDirections}
    ELSE SpawnLoop_short(sn, offs, k + 1, wx, wy)

\* Variant of SpawnLoop that puts the new snake first
\* ("self.snakes.insert(0, snake)").
RECURSIVE SpawnLoop_front(_, _, _, _, _)
SpawnLoop_front(sn, offs, k, wx, wy) ==
    IF k > spawn_trials
    THEN {[snakes |-> sn, ret |-> FALSE, trials |-> spawn_trials]}
    ELSE IF IsPlant(WorldCoord(offs[k], wx, wy))
    THEN {[snakes |-> <<[NewSnake(offs[k][1], offs[k][2], d)
                            EXCEPT !.born = Len(sn) + 1]>> \o sn,
           ret |-> TRUE, trials |-> k] : d \in SpawnDirections}
    ELSE SpawnLoop_front(sn, offs, k + 1, wx, wy)

\* "for _ in range(10)" from trial k on; offs[k] is the k-th offset drawn.
\* The result is a set: Snake.__init__ draws the new snake's direction.
RECURSIVE SpawnLoop(_, _, _, _, _)
SpawnLoop(sn, offs, k, wx, wy) ==
    IF k > spawn_trials
    THEN {[snakes |-> sn, ret |-> FALSE, trials |-> spawn_trials]}
    ELSE IF IsPlant(WorldCoord(offs[k], wx, wy))
    THEN {[snakes |-> Append(sn, [NewSnake(offs[k][1], offs[k][2], d)
                                     EXCEPT !.born = Len(sn) + 1]),
           ret |-> TRUE, trials |-> k] : d \in SpawnDirections}
    ELSE SpawnLoop(sn, offs, k + 1, wx, wy)

\* Variant of try_spawn_snake without the max_snakes test.
try_spawn_snake_uncapped(sn, offs, wx, wy) == SpawnLoop(sn, offs, 1, wx, wy)

try_spawn_snake(sn, offs, wx, wy) ==
    IF AtCap(Len(sn))
    THEN {[snakes |-> sn, ret |-> FALSE, trials |-> 0]}
    ELSE SpawnLoop(sn, offs, 1, wx, wy)

----------------------------------------------------------------------------
\* The state machine.

NoOffsets == [t \in 1..spawn_trials |-> <<0, 0>>]

\* The observation record of an operation that did nothing observable.
Quiet(op, dt) ==
    [op |-> op, dt |-> dt, was_active |-> active, moved |-> <<>>, eggs |-> <<>>,
     saves |-> 0, before |-> <<>>, prepass |-> <<>>, bites |-> <<>>,
     attempted |-> FALSE, prespawn |-> <<>>, offs |-> NoOffsets,
     ret |-> FALSE, trials |-> 0, since |-> since_spawn]

\* The observation of a try_spawn_snake call on the snakes sn with result r.
\* At the cap no offset is drawn.
Spawned(seen, sn, offs, r) ==
    [seen EXCEPT !.attempted = TRUE, !.prespawn = sn,
                 !.offs = IF r.trials = 0 THEN NoOffsets ELSE offs,
                 !.ret = r.ret, !.trials = r.trials]

\* SnakePlugin.__init__; the world origin and the plugin's activation are
\* the surrounding game's.
Init ==
    /\ snakes = <<>>
    /\ spawn_timer = 0
    /\ active \in BOOLEAN
    /\ spaces = {}
    /\ message = ""
    /\ message_timeout = 0
    /\ \E w \in WorldOrigins : world_x = w[1] /\ world_y = w[2]
    /\ error = FALSE
    /\ updates = 0
    /\ since_spawn = <<>>
    /\ last = [Quiet("init", 0) EXCEPT !.was_active = FALSE]

\* The surrounding game enables or disables the plugin.
SetActive ==
    /\ ~error
    /\ active' = ~active
    /\ last' = Quiet("set_active", 0)
    /\ UNCHANGED <<snakes, spawn_timer, spaces, message, message_timeout,
                   world_x, world_y, error, updates, since_spawn>>

\* Variant of UpdateInactive in which the spawn timer runs while inactive.
UpdateInactive_ticking(dt) ==
    /\ ~active
    /\ last' = Quiet("update", dt)
    /\ spawn_timer' = spawn_timer - dt
    /\ UNCHANGED <<snakes, active, spaces, message, message_timeout,
                   world_x, world_y, error, updates, since_spawn>>

\* SnakePlugin.update(dt) while inactive: "if not self.active: return".
UpdateInactive(dt) ==
    /\ ~active
    /\ last' = Quiet("update", dt)
    /\ UNCHANGED <<snakes, spawn_timer, active, spaces, message,
                   message_timeout, world_x, world_y, error, updates,
                   since_spawn>>

\* Variant of SpawnDue whose comparison is < 0.
SpawnDue_strict(timer) == timer < 0

\* "if self.spawn_timer <= 0"
SpawnDue(timer) == timer <= 0

Cost(sn) == IF sn = <<>> THEN 1 ELSE Len(sn)

\* Variant of UpdateActive in which the spawn timer and the spawn attempt
\* come first, before the moves and the collision pass.
UpdateActive_spawn_first(dt, cells, seqs, limit) ==
    /\ active
    /\ updates + Cost(snakes) <= limit
    /\ updates' = updates + Cost(snakes)
    /\ UNCHANGED <<active, world_x, world_y>>
    /\ \E offs \in seqs :
         \E r \in IF spawn_timer - dt <= 0
                  THEN try_spawn_snake(snakes, offs, world_x, world_y)
                  ELSE {[snakes |-> snakes, ret |-> FALSE, trials |-> 0]} :
           \E m \in MoveAll([snakes |-> <<>>, spaces |-> spaces, saves |-> 0,
                             moved |-> <<>>, eggs |-> <<>>, err |-> FALSE],
                            r.snakes, dt, world_x, world_y, cells) :
             LET c    == check_snake_collisions(m.snakes, message, message_timeout)
                 seen == [Quiet("update", dt) EXCEPT
                            !.moved = m.moved, !.eggs = m.eggs, !.saves = m.saves,
                            !.before = [i \in 1..Len(r.snakes) |->
                                          [len |-> Len(r.snakes[i].body),
                                           length |-> r.snakes[i].length,
                                           rattles |-> r.snakes[i].rattles,
                                           since |-> r.snakes[i].since_move]],
                            !.prepass = m.snakes, !.bites = c.bites,
                            !.prespawn = snakes]
             IN  /\ spaces' = m.spaces
                 /\ error' = m.err
                 /\ snakes' = IF m.err THEN m.snakes ELSE c.snakes
                 /\ message' = IF m.err THEN message ELSE c.message
                 /\ message_timeout' = IF m.err THEN message_timeout
                                       ELSE c.message_timeout
                 /\ spawn_timer' = IF spawn_timer - dt <= 0 THEN spawn_interval
                                   ELSE spawn_timer - dt
                 /\ since_spawn' = IF spawn_timer - dt <= 0 THEN <<0>>
                                   ELSE Accumulate(since_spawn, dt)
                 /\ last' = IF spawn_timer - dt <= 0
                            THEN Spawned(seen, snakes, offs, r) ELSE seen

\* SnakePlugin.update(dt) while active: the moves, the collision pass, the
\* spawn timer and the spawn attempt.  cells are the cells the heads may
\* visit, seqs the offset sequences the trial loop may draw, limit the
\* Snake.update calls explored.
UpdateActive(dt, cells, seqs, limit) ==
    /\ active
    /\ updates + Cost(snakes) <= limit
    /\ updates' = updates + Cost(snakes)
    /\ UNCHANGED <<active, world_x, world_y>>
    /\ \E m \in MoveAll([snakes |-> <<>>, spaces |-> spaces, saves |-> 0,
                         moved |-> <<>>, eggs |-> <<>>, err |-> FALSE],
                        snakes, dt, world_x, world_y, cells) :
         LET c     == check_snake_collisions(m.snakes, message, message_timeout)
             timer == spawn_timer - dt
             seen  == [Quiet("update", dt) EXCEPT
                         !.moved = m.moved, !.eggs = m.eggs, !.saves = m.saves,
                         !.before = [i \in 1..Len(snakes) |->
                                       [len |-> Len(snakes[i].body),
                                        length |-> snakes[i].length,
                                        rattles |-> snakes[i].rattles,
                                        since |-> snakes[i].since_move]],
                         !.prepass = m.snakes, !.bites = c.bites,
                         !.prespawn = c.snakes]
         IN  /\ spaces' = m.spaces
             /\ IF m.err
                THEN /\ error' = TRUE
                     /\ snakes' = m.snakes
                     /\ last' = [seen EXCEPT !.bites = <<>>,
                                             !.prespawn = m.snakes]
                     /\ UNCHANGED <<spawn_timer, message, message_timeout,
                                    since_spawn>>
                ELSE /\ error' = FALSE
                     /\ message' = c.message
                     /\ message_timeout' = c.message_timeout
                     /\ IF SpawnDue(timer)
                        THEN \E offs \in seqs :
                               \E r \in try_spawn_snake(c.snakes, offs,
                                                        world_x, world_y) :
                                   /\ spawn_timer' = spawn_interval
                                   /\ since_spawn' = <<0>>
                                   /\ snakes' = r.snakes
                                   /\ last' = Spawned(seen, c.snakes, offs, r)
                        ELSE /\ spawn_timer' = timer
                             /\ since_spawn' = Accumulate(since_spawn, dt)
                             /\ snakes' = c.snakes
                             /\ last' = seen

\* SnakePlugin.update(dt), for the dt values explored.
PluginUpdate ==
    /\ ~error
    /\ \E dt \in DtSet :
         UpdateInactive(dt) \/ UpdateActive(dt, Cells, TrialSeqs, MaxSnakeUpdates)

\* A direct call of SnakePlugin.try_spawn_snake(), drawing from seqs.
TrySpawnFrom(seqs) ==
    /\ ~error
    /\ \E offs \in seqs :
         \E r \in try_spawn_snake(snakes, offs, world_x, world_y) :
             /\ snakes' = r.snakes
             /\ last' = Spawned(Quiet("try_spawn", 0), snakes, offs, r)
    /\ UNCHANGED <<spawn_timer, active, spaces, message, message_timeout,
                   world_x, world_y, error, updates, since_spawn>>

TrySpawn == TrySpawnFrom(TrialSeqs)

Next == SetActive \/ PluginUpdate \/ TrySpawn

Spec == Init /\ [][Next]_vars

----------------------------------------------------------------------------
\* The duel: an active plugin ticked with dt = spawn_interval, so that every
\* snake moves and a spawn is attempted in every update, with at most three
\* snakes taking part (later trials draw no plant).

\* Snake.update calls explored in one behaviour of the duel.
DuelSnakeUpdates == 10

ConstantSeqs == {[t \in 1..spawn_trials |-> a] : a \in Offsets}

BarrenSeqs == {offs \in ConstantSeqs : ~IsPlant(WorldCoord(offs[1], world_x, world_y))}

DuelSeqs == IF Len(snakes) < 3 THEN ConstantSeqs ELSE BarrenSeqs

InitActive == Init /\ active

DuelUpdate ==
    ~error /\ UpdateActive(spawn_interval, Cells, DuelSeqs, DuelSnakeUpdates)

DuelSpawn == TrySpawnFrom(DuelSeqs)

NextDuel == DuelUpdate \/ DuelSpawn

SpecDuel == InitActive /\ [][NextDuel]_vars

----------------------------------------------------------------------------
\* Growth: an active plugin ticked with dt = move_interval or less; the first
\* update spawns the one snake (later trials draw no plant), which then
\* moves among the cells (0, -1), (0, 0) and (0, 1).

\* Snake.update calls explored in one behaviour of the growth run.
GrowSnakeUpdates == 26

GrowCells == {<<0, y>> : y \in -1..1}

GrowSeqs == IF snakes = <<>> THEN ConstantSeqs ELSE BarrenSeqs

GrowDts == {3, move_interval}

GrowUpdate ==
    /\ ~error
    /\ \E dt \in GrowDts :
          UpdateActive(dt, GrowCells, GrowSeqs, GrowSnakeUpdates)

NextGrow == GrowUpdate

SpecGrow == InitActive /\ [][NextGrow]_vars

----------------------------------------------------------------------------
\* Properties.

Min(a, b) == IF a <= b THEN a ELSE b

\* C1 as stated: immediately after every Snake.update in which a move
\* occurred, len(body) = length + rattles.
C1_BodyFullAfterEveryMove ==
    \A i \in 1..Len(last.moved) :
        last.moved[i] =>
            Len(last.prepass[i].body)
                = last.prepass[i].length + last.prepass[i].rattles

\* C1 amended: a move lengthens the body by one segment and then trims it
\* to length + rattles, so immediately after a move
\* len(body) = min(len(body before) + 1, length + rattles).
C1_MoveGrowsBodyUpToLimit ==
    [][\A i \in 1..Len(last'.moved) :
          last'.moved[i] =>
              Len(last'.prepass[i].body)
                  = Min(Len(snakes[i].body) + 1,
                        last'.prepass[i].length + last'.prepass[i].rattles)]_vars

\* One snake's tail was trimmed by its move (equality through the trim)
\* while a snake that carries rattles moved and stayed below its limit.
C1_Witness ==
    /\ \E i \in 1..Len(last.moved) :
          /\ last.moved[i]
          /\ last.before[i].len + 1 > last.prepass[i].length + last.prepass[i].rattles
          /\ Len(last.prepass[i].body)
                 = last.prepass[i].length + last.prepass[i].rattles
    /\ \E j \in 1..Len(last.moved) :
          /\ last.moved[j]
          /\ last.prepass[j].rattles > 0
          /\ Len(last.prepass[j].body)
                 < last.prepass[j].length + last.prepass[j].rattles

\* C2: in every reachable state len(snakes) <= max_snakes.
C2_PopulationCap == Len(snakes) <= max_snakes

\* An update of a full population attempted a spawn.
C2_Witness ==
    /\ Len(snakes) = max_snakes
    /\ last.op = "update"
    /\ last.attempted
    /\ Len(last.prespawn) = max_snakes

\* C3: at the cap try_spawn_snake returns False, makes no trial and changes
\* nothing: the snakes are those before the call, and a direct call leaves
\* every variable of the plugin and the game as it was.
C3_SpawnAtCapIsNoOp ==
    [][(last'.attempted /\ Len(last'.prespawn) >= max_snakes) =>
          /\ last'.ret = FALSE
          /\ last'.trials = 0
          /\ snakes' = last'.prespawn
          /\ last'.op = "try_spawn" =>
                 UNCHANGED <<snakes, spawn_timer, active, spaces, message,
                             message_timeout, world_x, world_y, error>>]_vars

\* A direct call at the cap while an offset in range is a plant.
C3_Witness ==
    /\ last.op = "try_spawn"
    /\ Len(last.prespawn) >= max_snakes
    /\ \E c \in Offsets : IsPlant(WorldCoord(c, world_x, world_y))
    /\ \E i \in 1..Len(snakes) : Len(snakes[i].body) > 1

\* Snake i of the observed update moved its head onto an egg coordinate.
EggMove(l, i) ==
    /\ l.moved[i]
    /\ IsEgg(WorldCoord(l.prepass[i].body[1], world_x, world_y))

\* C4: length <= max_length in every reachable state, and a move onto an egg
\* coordinate adds exactly 1 to length while length < max_length and leaves
\* it unchanged at max_length.
C4_GrowthSaturates ==
    /\ [](\A i \in 1..Len(snakes) : snakes[i].length <= max_length)
    /\ [][\A i \in 1..Len(last'.moved) :
             EggMove(last', i) =>
                 last'.prepass[i].length
                     = IF snakes[i].length < max_length
                       THEN snakes[i].length + 1
                       ELSE max_length]_vars

\* A snake already at max_length moved onto an egg.
C4_Witness ==
    \E i \in 1..Len(last.moved) :
        /\ EggMove(last, i)
        /\ last.before[i].length = max_length
        /\ snakes[i].length = max_length

\* The state of the collision pass right after the k-th bite of the observed
\* update: the state the next bite found, or the one the pass ended in.
AfterBite(l, k) ==
    IF k < Len(l.bites) THEN l.bites[k + 1].before
    ELSE [snakes |-> l.prespawn, message |-> message,
          message_timeout |-> message_timeout]

\* body without its element at 0-based index mid, the others in their order.
SameButOne(old, new, mid) ==
    /\ Len(new) = Len(old) - 1
    /\ \A p \in 1..Len(new) : new[p] = IF p <= mid THEN old[p] ELSE old[p + 1]

\* C5: A.bite(B) with len(B.body) >= 4 removes exactly the element at index
\* floor(len(B.body) / 2) from B.body, takes 1 from B.length, adds 2 to
\* A.rattles, returns True and leaves A.body, A.length and B.rattles alone.
C5_BiteRemovesMiddleSegment ==
    \A k \in 1..Len(last.bites) :
        LET b    == last.bites[k]
            pre  == b.before.snakes
            post == AfterBite(last, k).snakes
            n    == Len(pre[b.target].body)
        IN  n >= 4 =>
              /\ b.ret = TRUE
              /\ SameButOne(pre[b.target].body, post[b.target].body, n \div 2)
              /\ post[b.target].length = pre[b.target].length - 1
              /\ post[b.target].rattles = pre[b.target].rattles
              /\ post[b.biter].rattles = pre[b.biter].rattles + 2
              /\ post[b.biter].body = pre[b.biter].body
              /\ post[b.biter].length = pre[b.biter].length

\* A bite took the middle segment of a target of 4 or more segments whose
\* middle segment differs from the one before it, so that the index matters.
C5_Witness ==
    \E k \in 1..Len(last.bites) :
        LET body == last.bites[k].before.snakes[last.bites[k].target].body
        IN  /\ Len(body) >= 4
            /\ body[Len(body) \div 2 + 1] # body[Len(body) \div 2]
            /\ last.bites[k].ret

\* C6: A.bite(B) with len(B.body) <= 3 still adds 2 to A.rattles, leaves
\* B.body, B.length and B.rattles unchanged, sets neither the game message
\* nor its timeout, and returns False.
C6_BiteOnShortTargetOnlyAddsRattles ==
    \A k \in 1..Len(last.bites) :
        LET b    == last.bites[k]
            pre  == b.before.snakes
            post == AfterBite(last, k)
        IN  Len(pre[b.target].body) <= 3 =>
              /\ b.ret = FALSE
              /\ post.snakes[b.biter].rattles = pre[b.biter].rattles + 2
              /\ post.snakes[b.target] = pre[b.target]
              /\ post.message = b.before.message
              /\ post.message_timeout = b.before.message_timeout

\* A target of exactly 3 segments was bitten while no message was showing.
C6_Witness ==
    \E k \in 1..Len(last.bites) :
        /\ Len(last.bites[k].before.snakes[last.bites[k].target].body) = 3
        /\ last.bites[k].before.message = ""
        /\ AfterBite(last, k).message = ""

\* The head of snake x lies on a segment of snake y other than y's head.
Overlaps(x, y) == \E p \in 2..Len(y.body) : y.body[p] = x.body[1]

\* Snakes a and b of the observed update met head on body both ways when
\* the collision pass started.
Mutual(l, a, b) ==
    /\ a # b
    /\ l.prepass[a].body # <<>> /\ l.prepass[b].body # <<>>
    /\ Overlaps(l.prepass[a], l.prepass[b])
    /\ Overlaps(l.prepass[b], l.prepass[a])

Bit(l, a, b) == \E k \in 1..Len(l.bites) :
                    l.bites[k].biter = a /\ l.bites[k].target = b

BitWell(l, a, b) == \E k \in 1..Len(l.bites) :
                        /\ l.bites[k].biter = a /\ l.bites[k].target = b
                        /\ l.bites[k].ret

\* What C7 promises for the pair (a, b): both bites are invoked, and both
\* succeed when both bodies had more than 3 segments.
BothBite(l, a, b) ==
    /\ Bit(l, a, b) /\ Bit(l, b, a)
    /\ (Len(l.prepass[a].body) > 3 /\ Len(l.prepass[b].body) > 3) =>
           BitWell(l, a, b) /\ BitWell(l, b, a)

\* No third snake standing before a in the list bit b, none before b bit a.
NoThirdBiteFirst(l, a, b) ==
    \A k \in 1..Len(l.bites) :
        LET e == l.bites[k]
        IN  /\ (e.target = b /\ e.biter # a) => e.biter > a
            /\ (e.target = a /\ e.biter # b) => e.biter > b

\* C7 as stated: two snakes that meet head on body both ways at the start of
\* a collision pass both bite in that pass, whatever other snakes do.
C7_MutualBitesAlways ==
    \A a, b \in 1..Len(last.prepass) : Mutual(last, a, b) => BothBite(last, a, b)

\* C7 amended: they both bite (and both succeed when both bodies have more
\* than 3 segments) provided no third snake standing before A in the list
\* bites B, and none standing before B bites A, in that pass.
C7_MutualBitesUnlessThirdBitesFirst ==
    \A a, b \in 1..Len(last.prepass) :
        (Mutual(last, a, b) /\ NoThirdBiteFirst(last, a, b)) =>
            BothBite(last, a, b)

\* Among three snakes, two with more than 3 segments bit each other while
\* the third bit one of them later in the pass.
C7_Witness ==
    /\ Len(last.prepass) = 3
    /\ \E a, b \in 1..3 :
          /\ Mutual(last, a, b) /\ NoThirdBiteFirst(last, a, b)
          /\ Len(last.prepass[a].body) > 3 /\ Len(last.prepass[b].body) > 3
          /\ BitWell(last, a, b) /\ BitWell(last, b, a)
          /\ \E c \in 1..3 : c # a /\ c # b /\ Bit(last, c, a)

\* C8: while the plugin is inactive, update(dt) leaves the whole state as it
\* was: no snake changes, no bite, no timer step, no spawn attempt, no write
\* to the store.
C8_InactiveUpdateIsNoOp ==
    [][(last'.op = "update" /\ ~active) =>
          /\ UNCHANGED <<snakes, spawn_timer, active, spaces, message,
                         message_timeout, world_x, world_y, error>>
          /\ last'.moved = <<>> /\ last'.bites = <<>>
          /\ last'.saves = 0 /\ ~last'.attempted]_vars

\* An inactive update with a dt that would have moved a snake that has
\* already moved, and would have let the running spawn timer expire.
C8_Witness ==
    /\ last.op = "update" /\ ~last.was_active /\ ~active
    /\ spawn_timer > 0 /\ last.dt >= spawn_timer
    /\ \E i \in 1..Len(snakes) :
          Len(snakes[i].body) > 1 /\ snakes[i].time_to_move <= last.dt

\* The oracle's classification of the coordinate a spawn offset translates to.
PlantAt(off) ==
    LET c == WorldCoord(off, world_x, world_y)
    IN  (c[1] + 1000 * c[2]) % 127 = 64

PlantTrials(l) == {t \in 1..Len(l.offs) : PlantAt(l.offs[t])}

BelowCap(l) == l.attempted /\ Len(l.prespawn) < 5

\* C9: below the cap a call makes at most 10 trials and adds at most one
\* snake, and when none of the 10 offsets is a plant it returns False with
\* the snake list and every snake unchanged.
C9_BarrenTrialsChangeNothing ==
    BelowCap(last) =>
        /\ Len(last.offs) = 10 /\ last.trials \in 1..10
        /\ Len(snakes) <= Len(last.prespawn) + 1
        /\ PlantTrials(last) = {} => (~last.ret /\ snakes = last.prespawn)

\* A direct call on a population of moved snakes drew ten offsets, none a
\* plant.
C9_Witness ==
    /\ last.op = "try_spawn" /\ BelowCap(last)
    /\ PlantTrials(last) = {} /\ last.trials = 10
    /\ \E i \in 1..Len(snakes) : Len(snakes[i].body) > 1

\* C10: below the cap a call returns True iff one of the offsets drawn is a
\* plant; it then appends exactly one snake, built from the first such
\* offset (body of that one position, length 3, no rattles, time_to_move 0,
\* a cardinal direction), keeps the other snakes and makes no later trial.
C10_SpawnsAtFirstPlantTrial ==
    BelowCap(last) =>
        /\ last.ret <=> PlantTrials(last) # {}
        /\ last.ret =>
             LET k == CHOOSE t \in PlantTrials(last) :
                          \A u \in PlantTrials(last) : t <= u
                 s == snakes[Len(snakes)]
             IN  /\ Len(snakes) = Len(last.prespawn) + 1
                 /\ SubSeq(snakes, 1, Len(last.prespawn)) = last.prespawn
                 /\ s.body = <<last.offs[k]>>
                 /\ s.length = 3 /\ s.rattles = 0 /\ s.time_to_move = 0
                 /\ s.direction \in {<<0, -1>>, <<1, 0>>, <<0, 1>>, <<-1, 0>>}
                 /\ last.trials = k

\* A snake was spawned by the tenth trial, after nine offsets that are no
\* plant, next to snakes already there.
C10_Witness ==
    /\ BelowCap(last) /\ last.ret
    /\ last.trials = 10 /\ PlantTrials(last) = {10}
    /\ Len(last.prespawn) >= 1

\* Snake i of the observed update moved: old is the snake before the update,
\* new the snake right after its Snake.update.
Prepended(old, new) == <<new.body[1]>> \o old.body

\* C11: a move prepends new head = old head + direction, the direction being
\* one of the four cardinal unit vectors (the old one or a resampled one),
\* and then removes elements only from the tail; when len(body) was
\* length + rattles before the move and no egg is eaten, the new body is the
\* new head followed by the old body without its last element.
C11_MovePrependsHeadAndTrimsTail ==
    [][\A i \in 1..Len(last'.moved) :
          last'.moved[i] =>
              LET old == snakes[i]
                  new == last'.prepass[i]
                  d   == new.direction
              IN  /\ d \in {<<0, -1>>, <<1, 0>>, <<0, 1>>, <<-1, 0>>}
                  /\ new.body # <<>>
                  /\ new.body[1] = <<old.body[1][1] + d[1], old.body[1][2] + d[2]>>
                  /\ Len(new.body) <= Len(old.body) + 1
                  /\ new.body = SubSeq(Prepended(old, new), 1, Len(new.body))
                  /\ (Len(old.body) = old.length + old.rattles /\ ~last'.eggs[i])
                        => new.body = <<new.body[1]>>
                                        \o SubSeq(old.body, 1, Len(old.body) - 1)]_vars

\* A snake whose body was full moved without eating an egg and lost its last
\* element, its first three cells being distinct so that the order shows.
C11_Witness ==
    \E i \in 1..Len(last.moved) :
        /\ last.moved[i] /\ ~last.eggs[i]
        /\ last.before[i].len = last.before[i].length + last.before[i].rattles
        /\ last.before[i].len >= 3
        /\ Len(last.prepass[i].body) = last.before[i].len
        /\ last.prepass[i].body[1] # last.prepass[i].body[3]
        /\ last.prepass[i].body[2] # last.prepass[i].body[Len(last.prepass[i].body)]

\* C12: Snake.update never fails: in every reachable state no operation has
\* raised and every snake's body is non-empty, so body[0] can be read and
\* the trim loop never pops from an empty body.
C12_UpdateNeverFails ==
    /\ ~error
    /\ \A i \in 1..Len(snakes) : snakes[i].body # <<>>

\* A snake that had lost length to bites and carried rattles moved onto an
\* egg, bit and was bitten in an update that also attempted a spawn, and is
\* left with a target length of at most 1 and a body.
C12_Witness ==
    \E i \in 1..Len(last.moved) :
        /\ last.moved[i] /\ last.eggs[i]
        /\ last.before[i].length < 3 /\ last.before[i].rattles > 0
        /\ \E j \in 1..Len(last.bites) :
              last.bites[j].target = i /\ last.bites[j].ret
        /\ \E j \in 1..Len(last.bites) : last.bites[j].biter = i
        /\ last.attempted
        /\ snakes[i].length <= 1 /\ snakes[i].body # <<>>

\* C13: within one active update every Snake.update runs before any bite and
\* the spawn attempt runs after the collision pass: the pass starts from the
\* snakes as their moves left them, every bite is decided on the biter's
\* head after its move, only snakes present before the update move or take
\* part in a bite, and a snake spawned in the update is appended to the
\* snakes the pass left, its body being exactly its one spawn position.
C13_MovesThenBitesThenSpawn ==
    [][(last'.op = "update" /\ last'.was_active /\ ~error') =>
          /\ Len(last'.moved) = Len(snakes)
          /\ Len(last'.prepass) = Len(snakes)
          /\ Len(last'.prespawn) = Len(snakes)
          /\ \A k \in 1..Len(last'.bites) :
                LET b == last'.bites[k]
                IN  /\ b.biter \in 1..Len(snakes) /\ b.target \in 1..Len(snakes)
                    /\ k = 1 => b.before.snakes = last'.prepass
                    /\ b.before.snakes[b.biter].body[1]
                          = last'.prepass[b.biter].body[1]
                    /\ \E p \in 2..Len(b.before.snakes[b.target].body) :
                          b.before.snakes[b.target].body[p]
                              = last'.prepass[b.biter].body[1]
          /\ last'.bites = <<>> => last'.prespawn = last'.prepass
          /\ IF last'.attempted /\ last'.ret
             THEN /\ Len(snakes') = Len(snakes) + 1
                  /\ SubSeq(snakes', 1, Len(snakes)) = last'.prespawn
                  /\ snakes'[Len(snakes')].body = <<last'.offs[last'.trials]>>
             ELSE snakes' = last'.prespawn]_vars

\* An update in which a snake moved and then bit a snake that the cell it
\* left did not touch, and in which a snake was spawned afterwards.
C13_Witness ==
    /\ last.op = "update" /\ last.attempted /\ last.ret
    /\ Len(snakes[Len(snakes)].body) = 1
    /\ \E k \in 1..Len(last.bites) :
          LET b == last.bites[k]
          IN  /\ last.moved[b.biter]
              /\ Len(last.prepass[b.biter].body) >= 2
              /\ \A p \in 2..Len(b.before.snakes[b.target].body) :
                    b.before.snakes[b.target].body[p]
                        # last.prepass[b.biter].body[2]

\* The bites of the observed pass made by snake i, and those it received
\* that removed a segment.
BitesBy(l, i) == {k \in 1..Len(l.bites) : l.bites[k].biter = i}

LossesOf(l, i) == {k \in 1..Len(l.bites) : l.bites[k].target = i /\ l.bites[k].ret}

\* C14: in one collision pass A.bite(B) is invoked at most once per ordered
\* pair of distinct snakes, and only when A's head equals a segment of B at
\* index >= 1 as the pair is scanned; no snake bites itself.  So a pass adds
\* 2 rattles per bite made, at most 2 * (n - 1), to a snake and removes one
\* segment per successful bite received, at most n - 1, from it.
C14_OneBitePerOrderedPair ==
    LET n == Len(last.prepass)
    IN  /\ \A k \in 1..Len(last.bites) :
              LET b == last.bites[k]
              IN  /\ b.biter # b.target
                  /\ \E p \in 2..Len(b.before.snakes[b.target].body) :
                        b.before.snakes[b.target].body[p]
                            = b.before.snakes[b.biter].body[1]
                  /\ \A m \in 1..Len(last.bites) :
                        (last.bites[m].biter = b.biter
                            /\ last.bites[m].target = b.target) => m = k
        /\ Len(last.bites) > 0 =>
              \A i \in 1..n :
                  /\ last.prespawn[i].rattles
                        = last.prepass[i].rattles + 2 * Cardinality(BitesBy(last, i))
                  /\ last.prespawn[i].rattles
                        <= last.prepass[i].rattles + 2 * (n - 1)
                  /\ Len(last.prespawn[i].body)
                        = Len(last.prepass[i].body) - Cardinality(LossesOf(last, i))
                  /\ Len(last.prespawn[i].body)
                        >= Len(last.prepass[i].body) - (n - 1)

\* A pass of three snakes in which a snake whose head lay on its own body
\* and on two segments of another snake bit that snake, while two heads
\* shared a cell.
C14_Witness ==
    /\ Len(last.prepass) = 3
    /\ \E k \in 1..Len(last.bites) :
          LET b    == last.bites[k]
              head == b.before.snakes[b.biter].body[1]
              own  == b.before.snakes[b.biter].body
              body == b.before.snakes[b.target].body
          IN  /\ \E p \in 2..Len(own) : own[p] = head
              /\ Cardinality({p \in 2..Len(body) : body[p] = head}) >= 2
              /\ body[1] = head

\* What C15 says of one active update that raised nothing, from the state
\* before it (unprimed) to the state after it: at most one attempt, made
\* exactly when spawn_timer - dt <= 0; the timer is then exactly
\* spawn_interval whatever the attempt did, and otherwise spawn_timer - dt;
\* at least spawn_interval of accumulated dt lies between two attempts.
SpawnTiming ==
    /\ last'.attempted <=> (spawn_timer - last'.dt <= 0)
    /\ last'.attempted => spawn_timer' = 100
    /\ ~last'.attempted => (spawn_timer' = spawn_timer - last'.dt
                              /\ snakes' = last'.prespawn)
    /\ Len(snakes') <= Len(snakes) + 1
    /\ last'.trials <= 10
    /\ (last'.attempted /\ since_spawn # <<>>) =>
           since_spawn[1] + last'.dt >= 100

ActiveUpdateStep == last'.op = "update" /\ last'.was_active /\ ~error'

\* C15 as stated: the spawn timing above, and the first active update
\* always attempts a spawn.
C15_FirstActiveUpdateAlwaysSpawns ==
    [][ActiveUpdateStep =>
          /\ SpawnTiming
          /\ updates = 0 => last'.attempted]_vars

\* C15 amended: the spawn timing above, and the first active update attempts
\* a spawn when its dt is not negative.
C15_SpawnTiming ==
    [][ActiveUpdateStep =>
          /\ SpawnTiming
          /\ (updates = 0 /\ last'.dt >= 0) => last'.attempted]_vars

\* An update with a large dt made a second attempt, which found no plant in
\* ten trials, after dt had accumulated over an update that made none.
C15_Witness ==
    /\ last.op = "update" /\ last.attempted
    /\ last.since # <<>> /\ last.since[1] > 0 /\ last.since[1] < 100
    /\ last.since[1] + last.dt > 100
    /\ last.trials = 10 /\ ~last.ret
    /\ spawn_timer = 100

Abs(n) == IF n < 0 THEN -n ELSE n

\* C16: in every Snake.update a move happens exactly when
\* time_to_move - dt <= 0, so the first update of a snake (time_to_move 0)
\* moves for every dt >= 0; a move advances the head by exactly one cell
\* whatever dt is and leaves time_to_move at exactly move_interval; at least
\* move_interval of accumulated dt lies between two moves of a snake; an
\* update without a move changes nothing but time_to_move.
C16_MoveTiming ==
    [][ActiveUpdateStep =>
          \A i \in 1..Len(snakes) :
              LET old == snakes[i]
                  new == last'.prepass[i]
                  dt  == last'.dt
              IN  /\ last'.moved[i] <=> (old.time_to_move - dt <= 0)
                  /\ (old.time_to_move = 0 /\ dt >= 0) => last'.moved[i]
                  /\ last'.moved[i] =>
                        /\ new.time_to_move = 5
                        /\ Len(new.body) <= Len(old.body) + 1
                        /\ Abs(new.body[1][1] - old.body[1][1])
                              + Abs(new.body[1][2] - old.body[1][2]) = 1
                        /\ old.since_move # <<>> => old.since_move[1] + dt >= 5
                  /\ ~last'.moved[i] =>
                        /\ new.time_to_move = old.time_to_move - dt
                        /\ new.body = old.body /\ new.length = old.length
                        /\ new.rattles = old.rattles
                        /\ new.direction = old.direction
                        /\ ~last'.eggs[i]]_vars

\* In one update with a dt below move_interval, a snake made its first move
\* with dt = 0 or a later move after an update that did not move it, while
\* another snake, which had moved before, stayed where it was.
C16_Witness ==
    /\ last.op = "update" /\ last.dt < 5
    /\ \E i \in 1..Len(last.moved) :
          /\ last.moved[i]
          /\ \/ last.before[i].since = <<>> /\ last.dt = 0
             \/ last.before[i].since # <<>> /\ last.before[i].since[1] \in 1..4
    /\ \E j \in 1..Len(last.moved) :
          /\ ~last.moved[j]
          /\ Len(last.prepass[j].body) >= 2
          /\ last.prepass[j].time_to_move \in 1..4

\* The store entries the egg moves of the observed update write: the
\* absolute coordinate of the new head, under the key of the formatted pair.
EggEntries(l) ==
    {<< <<"md5", c[1], c[2]>>, c >> :
        c \in {WorldCoord(l.prepass[i].body[1], world_x, world_y) :
                  i \in {j \in 1..Len(l.moved) : EggMove(l, j)}}}

\* C17: every move whose new head translates to an egg coordinate records
\* that coordinate in the store under the key of the coordinate pair and
\* requests exactly one save, also at max length; a move onto a non-egg
\* coordinate and an update without a move leave the store alone; no step
\* removes a store entry or gives a key another value.
C17_EggMovesAreStoredAndSaved ==
    [][/\ spaces \subseteq spaces'
       /\ \A p, q \in spaces' : p[1] = q[1] => p = q
       /\ IF ActiveUpdateStep
          THEN /\ spaces' = spaces \cup EggEntries(last')
               /\ last'.saves
                     = Cardinality({i \in 1..Len(last'.moved) : EggMove(last', i)})
               /\ \A i \in 1..Len(last'.moved) : last'.eggs[i] <=> EggMove(last', i)
          ELSE spaces' = spaces /\ last'.saves = 0]_vars

\* A snake at max length moved onto the egg coordinate, which the store
\* already held, and one save was requested.
C17_Witness ==
    /\ last.saves = 1
    /\ \E i \in 1..Len(last.moved) :
          /\ EggMove(last, i)
          /\ last.before[i].length = 15
    /\ spaces = {<< <<"md5", 64, 1>>, <<64, 1>> >>}

\* C18: once a coordinate is recorded in the store as claimed, a later move
\* of a snake's head onto that same absolute coordinate causes no growth.
C18_ClaimedEggGrowsNoSnake ==
    [][ActiveUpdateStep =>
          \A i \in 1..Len(last'.moved) :
              LET c == WorldCoord(last'.prepass[i].body[1], world_x, world_y)
              IN  (last'.moved[i] /\ << <<"md5", c[1], c[2]>>, c >> \in spaces)
                      => last'.prepass[i].length = snakes[i].length]_vars

\* C19: across update and try_spawn_snake calls len(snakes) never decreases
\* and grows by at most 1 per call, every snake keeps its list index, and
\* once len(snakes) is 5 it stays 5.
C19_SnakesStayInPlace ==
    [][/\ Len(snakes') >= Len(snakes)
       /\ Len(snakes') <= Len(snakes) + 1
       /\ \A i \in 1..Len(snakes) : snakes'[i].born = snakes[i].born
       /\ Len(snakes) = 5 => Len(snakes') = 5]_vars

\* Five snakes, each at the index of its rank of creation, all moved in an
\* update whose spawn attempt was refused at the cap.
C19_Witness ==
    /\ last.op = "update" /\ last.attempted /\ ~last.ret
    /\ Len(snakes) = 5 /\ Len(last.prespawn) = 5
    /\ \A i \in 1..5 : /\ last.moved[i]
                        /\ Len(snakes[i].body) = 2
                        /\ snakes[i].born = i

\* C20: every snake's length is at least 1 in every reachable state.
C20_LengthStaysPositive ==
    \A i \in 1..Len(snakes) : snakes[i].length >= 1

====
